---- MODULE Spec2Model ----
(***************************************************************************)
(* Newsletter delivery: the issue_delivery_queue worker                    *)
(* (src/src/issue_delivery_worker.rs), the address parser                  *)
(* (src/src/domain/subscriber_email.rs), the publish handler               *)
(* (src/src/routes/admin/newsletters/post.rs), the email client            *)
(* (src/src/email_client.rs) and the subscription and password handlers.   *)
(*                                                                         *)
(* Strings are sequences of one-character strings, so that trim() and the  *)
(* address validation are computed, not assumed.                           *)
(***************************************************************************)
EXTENDS Integers, Sequences, FiniteSets, TLC

\* ------------------------------------------------------------------ bounds
NumWorkers == 2      \* worker processes running worker_loop
MaxQueue == 2        \* rows of issue_delivery_queue in the initial state
MaxFaults == 1       \* store errors and crashes in one behaviour
NumRequests == 2     \* POST /admin/newsletters requests in one behaviour
MaxTimeout == 2      \* longest timeout an EmailClient is built with, in ticks
MaxDelay == 3        \* longest time the gateway takes to answer, in ticks
MaxSalts == 2        \* salts compute_password_hash can draw

\* ------------------------------------------------------- program constants
EmptyQueueSleep == 10
MinPasswordLength == 12
ErrorSleep == 1

Workers == 1..NumWorkers
\* The caller of dispatch_all_pending_emails (tests/api/helper.rs).
Drainer == 0
Callers == {Drainer} \cup Workers
\* newsletter_issue_id values (opaque uuids).
Issues == {"i1", "i2"}

\* Stored subscriber_email values: " b@a" (valid once trimmed) and "ab" (no "@").
Addresses == { <<" ", "b", "@", "a">>, <<"a", "b">> }
Tasks == Issues \X Addresses

\* Stored subscriptions.email values: the above and "a@b".
Subscribers == Addresses \cup { <<"a", "@", "b">> }
Requests == 1..NumRequests
\* The (user_id of the session, idempotency_key of the form) pairs requests
\* come with: two keys of one user, and one key under two users.
Submissions == {<<"u1", "k1">>, <<"u1", "k2">>, <<"u2", "k1">>}
\* The fields of PublishParams; none is optional.
RequiredFields == {"title", "html_content", "text_content"}
\* The fields a submitted form carries besides idempotency_key.
Forms == {RequiredFields, {"html_content", "text_content"}, {"title"}}
NoResponse == [status |-> 0, location |-> ""]
NoTask == <<"none", <<>>>>

\* ------------------------------------------------ SubscriberEmail::from_str
IsWhitespace(c) == c = " "

RECURSIVE TrimStart(_)
TrimStart(s) ==
    IF s # <<>> /\ IsWhitespace(Head(s)) THEN TrimStart(Tail(s)) ELSE s

RECURSIVE TrimEnd(_)
TrimEnd(s) ==
    IF s # <<>> /\ IsWhitespace(s[Len(s)])
    THEN TrimEnd(SubSeq(s, 1, Len(s) - 1))
    ELSE s

Trim(s) == TrimEnd(TrimStart(s))

UserChars == {"a", "b"}
DomainChars == {"a", "b"}

\* validator::ValidateEmail: split at the last "@"; the user part and the
\* domain part are non-empty and hold only the characters their patterns
\* allow (no blank, no "@").
ValidateEmail(s) ==
    LET ats == {i \in 1..Len(s) : s[i] = "@"}
    IN  /\ ats # {}
        /\ LET i == CHOOSE k \in ats : \A j \in ats : j <= k
               user == SubSeq(s, 1, i - 1)
               domain == SubSeq(s, i + 1, Len(s))
           IN  /\ user # <<>>
               /\ domain # <<>>
               /\ \A k \in 1..Len(user) : user[k] \in UserChars
               /\ \A k \in 1..Len(domain) : domain[k] \in DomainChars

ParseAcceptsAll(s) == [ok |-> TRUE, email |-> Trim(s)]

FromStr(s) ==
    IF ValidateEmail(Trim(s))
    THEN [ok |-> TRUE, email |-> Trim(s)]
    ELSE [ok |-> FALSE, email |-> <<>>]

\* SubscriberEmail::from_str(&email), for each address a queue row can hold.
ParsedAddress == [a \in Addresses |-> FromStr(a)]

\* ------------------------------------------------------------------- state
VARIABLES
    queue,       \* committed rows of issue_delivery_queue: <<issue_id, email>>
    issues,      \* issue ids with a row in newsletter_issues
    enqueued,    \* the rows the queue started with
    pc,          \* per caller: where it is in try_execute_task / its loop
    task,        \* per caller: the row its open transaction has locked
    delivery,    \* per caller: outcome of the delivery stage of this call
    outcome,     \* per caller: what the last try_execute_task returned
    delay,       \* per worker: seconds slept before the next poll
    attempts,    \* per row: delivery stages run (send_email or address rejected)
    calls,       \* per row: send_email calls
    issueRead,   \* per row: get_issue was called for it
    redo,        \* per row: claims released without delete after an attempt
    faults,      \* store errors and crashes so far
    nCalls,      \* try_execute_task calls made by dispatch_all_pending_emails
    nCompleted,  \* of those, the ones that returned TaskCompleted
    cancelled,   \* the worker process has been asked to shut down
    subs,        \* subscriptions.status per stored email
    heap,        \* the rows of subscriptions in the order a scan returns them
    rpc,         \* per publish request: where it is in publish_newsletter
    ruser,       \* per publish request: user_id of its session
    rkey,        \* per publish request: idempotency_key field of its form
    rform,       \* per publish request: the other fields its form carries
    rprior,      \* per publish request: the requests answered before it came
    rlist,       \* per publish request: rows get_confirmed_subscribers returned
    ridx,        \* per publish request: rows of rlist handled so far
    rcalls,      \* per publish request: recipients of its send_email calls
    rerrs,       \* per publish request: send_email calls that returned Err
    resp,        \* per publish request: the HTTP response
    mail,        \* one EmailClient::send_email call and the gateway it talks to
    subscriptions, \* committed rows of subscriptions: id, email, name, status
    tokens,      \* committed rows of subscription_tokens
    outbox,      \* confirmation emails handed to the email client
    users,       \* users table: user id -> password hash
    pw,          \* per request: a POST /admin/password and how far it got
    web          \* per request to /subscriptions[/confirm]: its progress

workerVars == <<queue, issues, enqueued, pc, task, delivery, outcome, delay,
                attempts, calls, issueRead, redo, faults, nCalls, nCompleted,
                cancelled>>

publishVars == <<subs, heap, rpc, ruser, rkey, rform, rprior, rlist, ridx,
                 rcalls, rerrs, resp>>

siteVars == <<subscriptions, tokens, outbox, web>>

authVars == <<users, pw>>

apiVars == <<mail, siteVars, authVars>>

vars == <<workerVars, publishVars, apiVars>>

EveryRow(c) == queue

ReleasedWhileSending(c) ==
    {task[d] : d \in {e \in Callers \ {c} : pc[e] # "send"}} \ {NoTask}

\* Rows locked by the open transaction of some caller other than c.
LockedByOthers(c) == {task[d] : d \in Callers \ {c}} \ {NoTask}

Locked == {task[d] : d \in Callers} \ {NoTask}

IgnoreLocks(q, locked) == q

\* SELECT ... FOR UPDATE SKIP LOCKED: the rows the query may return.
Claimable(q, locked) == q \ locked

ClaimByDelete(q, t) == q \ {t}

\* The table after the SELECT ... FOR UPDATE: the row is locked, not removed.
RowsAfterSelect(q, t) == q

DeleteByEmailOnly(q, issue_id, email) == {r \in q : r[2] # email}

DeleteByIssueOnly(q, issue_id, email) == {r \in q : r[1] # issue_id}

\* DELETE ... WHERE newsletter_issue_id = $1 AND subscriber_email = $2
DeleteRows(q, issue_id, email) == {r \in q : ~(r[1] = issue_id /\ r[2] = email)}

\* ---------------------------------------------------------------- initial
InitQueue ==
    /\ queue \in {q \in SUBSET Tasks : Cardinality(q) <= MaxQueue}
    /\ issues \in SUBSET Issues
    /\ enqueued = queue
    /\ pc = [c \in Callers |-> "idle"]
    /\ task = [c \in Callers |-> NoTask]
    /\ delivery = [c \in Callers |-> "none"]
    /\ outcome = [c \in Callers |-> "none"]
    /\ delay = [c \in Callers |-> 0]
    /\ attempts = [t \in Tasks |-> 0]
    /\ calls = [t \in Tasks |-> 0]
    /\ issueRead = [t \in Tasks |-> FALSE]
    /\ redo = [t \in Tasks |-> 0]
    /\ faults = 0
    /\ nCalls = 0
    /\ nCompleted = 0
    /\ cancelled = FALSE

\* No publish request is made.
NoPublish ==
    /\ subs = [a \in Subscribers |-> "pending"]
    /\ heap = <<>>
    /\ rpc = [r \in Requests |-> "new"]
    /\ ruser = [r \in Requests |-> "u1"]
    /\ rkey = [r \in Requests |-> "k1"]
    /\ rform = [r \in Requests |-> {}]
    /\ rprior = [r \in Requests |-> {}]
    /\ rlist = [r \in Requests |-> <<>>]
    /\ ridx = [r \in Requests |-> 0]
    /\ rcalls = [r \in Requests |-> <<>>]
    /\ rerrs = [r \in Requests |-> 0]
    /\ resp = [r \in Requests |-> NoResponse]

\* The gateway has not answered by any deadline.
Never == MaxTimeout + MaxDelay + 1

\* The statuses the gateway answers with.
GatewayStatuses == {200, 404, 500, 503}

\* No send_email call is under way.
NoCall == [state |-> "idle", timeout |-> 1, status |-> 200, delay |-> 0,
           clock |-> 0, result |-> "none"]

\* A form field that the request body does not carry.
Missing == <<"missing">>

\* The bodies POSTed to /subscriptions.
SubscribeForms ==
    { [name |-> <<"a", " ", "b">>, email |-> <<" ", "b", "@", "a">>],
      [name |-> <<"a", " ", "b">>, email |-> <<"a", "@", "b">>],
      [name |-> <<" ">>,           email |-> <<"a", "@", "b">>],
      [name |-> <<"a", "/">>,      email |-> <<"a", "@", "b">>],
      [name |-> <<"a", " ", "b">>, email |-> <<>>],
      [name |-> <<"a", " ", "b">>, email |-> <<"a", "b">>],
      [name |-> Missing,           email |-> <<"a", "@", "b">>],
      [name |-> <<"a", " ", "b">>, email |-> Missing] }

NoForm == [name |-> Missing, email |-> Missing]

\* A subscription_token no subscribe request has generated.
UnknownToken == 0

\* The id, and the token, of a subscriber who signed up before the behaviour
\* starts.
SeedId == NumRequests + 1

SeedRow == [id |-> SeedId, email |-> <<"b", "@", "b">>, name |-> <<"b">>,
            status |-> "pending"]

SeedToken == [subscription_token |-> SeedId, subscriber_id |-> SeedId]

\* A request that has not arrived.
NoRequest == [kind |-> "none", pc |-> "new", form |-> NoForm, token |-> UnknownToken,
              id |-> 0, resp |-> 0]

\* Nothing outside the worker and the publish handler is exercised.
\* ChangePasswordForm values: the user's password as spawn_app stored it, one
\* shorter than the minimum, and a long one.
StoredPassword == "3f0e5a44-7c1b-4f0e-9c39-6a6f3a1d2b77"

ShortPassword == "short"

LongPassword == "anything-but-a-long-password"

Passwords == {StoredPassword, ShortPassword, LongPassword}

PasswordForms ==
    [current_password : {StoredPassword, LongPassword},
     new_password : {ShortPassword, LongPassword},
     new_password_confirmed : {ShortPassword, LongPassword}]

NoPasswordForm ==
    [current_password |-> "", new_password |-> "", new_password_confirmed |-> ""]

\* The one registered user, and a session that holds no user id.
UserIds == {"admin"}

Anonymous == "none"

Sessions == UserIds \cup {Anonymous}

\* SaltString::generate
Salts == 1..MaxSalts

\* compute_password_hash: the PHC string of a password under a salt.
PasswordHash(salt, password) == <<"argon2id", salt, password>>

\* Argon2::verify_password
VerifyPassword(hash, password) == hash = PasswordHash(hash[2], password)

\* A change-password request that has not arrived.
NoPost ==
    [pc |-> "new", session |-> Anonymous, form |-> NoPasswordForm,
     resp |-> [status |-> 0, location |-> ""]]

\* TestUser::store, and no request yet.
NoPosts ==
    /\ users = [u \in UserIds |-> PasswordHash(1, StoredPassword)]
    /\ pw = [r \in Requests |-> NoPost]

NoApi ==
    /\ mail = NoCall
    /\ subscriptions = {}
    /\ tokens = {}
    /\ outbox = <<>>
    /\ web = [r \in Requests |-> NoRequest]
    /\ NoPosts

Init == InitQueue /\ NoPublish /\ NoApi

\* --------------------------------------------------------- try_execute_task
ReturnKeepsLock(c, r) ==
    /\ pc' = [pc EXCEPT ![c] = "returned"]
    /\ outcome' = [outcome EXCEPT ![c] = r]
    /\ UNCHANGED task

\* try_execute_task returns r: the transaction (if any) is dropped or
\* committed, so the row lock is gone.
Return(c, r) ==
    /\ pc' = [pc EXCEPT ![c] = "returned"]
    /\ outcome' = [outcome EXCEPT ![c] = r]
    /\ task' = [task EXCEPT ![c] = NoTask]

\* A claim on row t ends without the delete being committed.
Released(c) ==
    redo' = IF delivery[c] # "none"
            THEN [redo EXCEPT ![task[c]] = @ + 1]
            ELSE redo

SendRegardless(parsed) == "get_issue"

\* The stage that follows SubscriberEmail::from_str(&email).
StageAfterParse(parsed) == IF parsed.ok THEN "get_issue" ELSE "retire"

\* dequeue_task, the EmptyQueue return of try_execute_task, and for a claimed
\* row the match on SubscriberEmail::from_str(&email), which runs before the
\* next await.
Dequeue(c) ==
    /\ pc[c] = "idle"
    /\ LET rows == Claimable(queue, LockedByOthers(c))
       IN  IF rows = {}
           THEN /\ Return(c, "EmptyQueue")
                /\ UNCHANGED <<queue, delivery, attempts>>
           ELSE \E t \in rows :
                  LET next == StageAfterParse(ParsedAddress[t[2]])
                  IN  /\ task' = [task EXCEPT ![c] = t]
                      /\ queue' = RowsAfterSelect(queue, t)
                      /\ pc' = [pc EXCEPT ![c] = next]
                      /\ UNCHANGED outcome
                      /\ IF next = "retire"
                         THEN /\ delivery' = [delivery EXCEPT ![c] = "invalid"]
                              /\ attempts' = [attempts EXCEPT ![t] = @ + 1]
                         ELSE UNCHANGED <<delivery, attempts>>
    /\ delay' = [delay EXCEPT ![c] = 0]
    /\ nCalls' = IF c = Drainer THEN nCalls + 1 ELSE nCalls
    /\ UNCHANGED publishVars
    /\ UNCHANGED apiVars
    /\ UNCHANGED cancelled
    /\ UNCHANGED <<issues, enqueued, calls, issueRead, redo, faults, nCompleted>>

\* pool.begin() or the SELECT fails.
DequeueError(c) ==
    /\ pc[c] = "idle"
    /\ faults < MaxFaults
    /\ faults' = faults + 1
    /\ Return(c, "Err")
    /\ delay' = [delay EXCEPT ![c] = 0]
    /\ nCalls' = IF c = Drainer THEN nCalls + 1 ELSE nCalls
    /\ UNCHANGED publishVars
    /\ UNCHANGED apiVars
    /\ UNCHANGED cancelled
    /\ UNCHANGED <<queue, issues, enqueued, delivery, attempts, calls,
                   issueRead, redo, nCompleted>>

\* get_issue(pool, issue_id).await?  (fetch_one: no row is an error)
GetIssue(c) ==
    /\ pc[c] = "get_issue"
    /\ issueRead' = [issueRead EXCEPT ![task[c]] = TRUE]
    /\ IF task[c][1] \in issues
       THEN /\ pc' = [pc EXCEPT ![c] = "send"]
            /\ UNCHANGED <<task, outcome, redo>>
       ELSE /\ Return(c, "Err")
            /\ Released(c)
    /\ UNCHANGED publishVars
    /\ UNCHANGED apiVars
    /\ UNCHANGED cancelled
    /\ UNCHANGED <<queue, issues, enqueued, delivery, delay, attempts, calls,
                   faults, nCalls, nCompleted>>

\* The newsletter_issues query itself fails.
GetIssueError(c) ==
    /\ pc[c] = "get_issue"
    /\ faults < MaxFaults
    /\ faults' = faults + 1
    /\ issueRead' = [issueRead EXCEPT ![task[c]] = TRUE]
    /\ Return(c, "Err")
    /\ Released(c)
    /\ UNCHANGED publishVars
    /\ UNCHANGED apiVars
    /\ UNCHANGED cancelled
    /\ UNCHANGED <<queue, issues, enqueued, delivery, delay, attempts, calls,
                   nCalls, nCompleted>>

PropagateSendError(ok) == IF ok THEN "retire" ELSE "abort"

\* `if let Err(e) = email_client.send_email(..).await { tracing::error!(..) }`:
\* a gateway error is logged and not propagated.
StageAfterSend(ok) == "retire"

\* email_client.send_email(...) and what follows it.
SendEmail(c) ==
    /\ pc[c] = "send"
    /\ calls' = [calls EXCEPT ![task[c]] = @ + 1]
    /\ attempts' = [attempts EXCEPT ![task[c]] = @ + 1]
    /\ \E ok \in BOOLEAN :
         /\ delivery' = [delivery EXCEPT ![c] = IF ok THEN "sent" ELSE "failed"]
         /\ IF StageAfterSend(ok) = "retire"
            THEN /\ pc' = [pc EXCEPT ![c] = "retire"]
                 /\ UNCHANGED <<task, outcome, redo>>
            ELSE /\ Return(c, "Err")
                 /\ redo' = [redo EXCEPT ![task[c]] = @ + 1]
    /\ UNCHANGED publishVars
    /\ UNCHANGED apiVars
    /\ UNCHANGED cancelled
    /\ UNCHANGED <<queue, issues, enqueued, delay, issueRead, faults, nCalls,
                   nCompleted>>

DeleteByParsedEmail(email) == Trim(email)

\* The email the DELETE is keyed on: the stored string, not the parsed one.
DeleteKey(email) == email

\* delete_task(transaction, issue_id, &email).await? ; Ok(TaskCompleted)
DeleteTask(c) ==
    /\ pc[c] = "retire"
    /\ queue' = DeleteRows(queue, task[c][1], DeleteKey(task[c][2]))
    /\ Return(c, "TaskCompleted")
    /\ UNCHANGED publishVars
    /\ UNCHANGED apiVars
    /\ UNCHANGED cancelled
    /\ UNCHANGED <<issues, enqueued, delivery, delay, attempts, calls,
                   issueRead, redo, faults, nCalls, nCompleted>>

\* The DELETE or the commit fails: the transaction is rolled back.
DeleteError(c) ==
    /\ pc[c] = "retire"
    /\ faults < MaxFaults
    /\ faults' = faults + 1
    /\ Return(c, "Err")
    /\ Released(c)
    /\ UNCHANGED publishVars
    /\ UNCHANGED apiVars
    /\ UNCHANGED cancelled
    /\ UNCHANGED <<queue, issues, enqueued, delivery, delay, attempts, calls,
                   issueRead, nCalls, nCompleted>>

CrashHolds(c) ==
    /\ pc[c] \in {"get_issue", "send", "retire"}
    /\ faults < MaxFaults
    /\ faults' = faults + 1
    /\ pc' = [pc EXCEPT ![c] = "crashed"]
    /\ UNCHANGED publishVars
    /\ UNCHANGED apiVars
    /\ UNCHANGED cancelled
    /\ UNCHANGED <<queue, issues, enqueued, task, delivery, outcome, delay,
                   attempts, calls, issueRead, redo, nCalls, nCompleted>>

\* The worker process dies while its transaction is open; the connection is
\* aborted, the transaction rolled back, and a new worker process starts.
Crash(c) ==
    /\ pc[c] \in {"get_issue", "send", "retire"}
    /\ faults < MaxFaults
    /\ faults' = faults + 1
    /\ Released(c)
    /\ pc' = [pc EXCEPT ![c] = "idle"]
    /\ task' = [task EXCEPT ![c] = NoTask]
    /\ delivery' = [delivery EXCEPT ![c] = "none"]
    /\ UNCHANGED publishVars
    /\ UNCHANGED apiVars
    /\ UNCHANGED cancelled
    /\ UNCHANGED <<queue, issues, enqueued, outcome, delay, attempts, calls,
                   issueRead, nCalls, nCompleted>>

\* ------------------------------------------------------------- worker_loop
SwappedSleep(r) ==
    IF r = "TaskCompleted" THEN 0
    ELSE IF r = "EmptyQueue" THEN ErrorSleep
    ELSE EmptyQueueSleep

SleepFor(r) ==
    IF r = "TaskCompleted" THEN 0
    ELSE IF r = "EmptyQueue" THEN EmptyQueueSleep
    ELSE ErrorSleep

StopOnError(c) ==
    /\ pc[c] = "returned"
    /\ delay' = [delay EXCEPT ![c] = SleepFor(outcome[c])]
    /\ pc' = [pc EXCEPT ![c] = IF outcome[c] = "Err" THEN "stopped" ELSE "idle"]
    /\ outcome' = [outcome EXCEPT ![c] = "none"]
    /\ delivery' = [delivery EXCEPT ![c] = "none"]
    /\ UNCHANGED publishVars
    /\ UNCHANGED apiVars
    /\ UNCHANGED cancelled
    /\ UNCHANGED <<queue, issues, enqueued, task, attempts, calls, issueRead,
                   redo, faults, nCalls, nCompleted>>

\* One turn of `loop { match try_execute_task(..).await { .. } }`: the sleep
\* the arm asks for, then the top of the loop.
WorkerLoop(c) ==
    /\ pc[c] = "returned"
    /\ delay' = [delay EXCEPT ![c] = SleepFor(outcome[c])]
    /\ pc' = [pc EXCEPT ![c] = "idle"]
    /\ outcome' = [outcome EXCEPT ![c] = "none"]
    /\ delivery' = [delivery EXCEPT ![c] = "none"]
    /\ UNCHANGED publishVars
    /\ UNCHANGED apiVars
    /\ UNCHANGED cancelled
    /\ UNCHANGED <<queue, issues, enqueued, task, attempts, calls, issueRead,
                   redo, faults, nCalls, nCompleted>>

\* ------------------------------------------- dispatch_all_pending_emails
DrainLoop ==
    /\ pc[Drainer] = "returned"
    /\ pc' = [pc EXCEPT ![Drainer] =
                IF outcome[Drainer] = "EmptyQueue" THEN "stopped"
                ELSE IF outcome[Drainer] = "Err" THEN "panicked"
                ELSE "idle"]
    /\ nCompleted' = IF outcome[Drainer] = "TaskCompleted"
                     THEN nCompleted + 1 ELSE nCompleted
    /\ delivery' = [delivery EXCEPT ![Drainer] = "none"]
    /\ outcome' = [outcome EXCEPT ![Drainer] = "none"]
    /\ UNCHANGED publishVars
    /\ UNCHANGED apiVars
    /\ UNCHANGED cancelled
    /\ UNCHANGED <<queue, issues, enqueued, task, delay, attempts, calls,
                   issueRead, redo, faults, nCalls>>

\* ------------------------------------------------------ publish_newsletter
\* utils::see_other(location)
SeeOther(location) == [status |-> 303, location |-> location]

\* web::Form<PublishParams> could not be extracted from the body.
BadRequest == [status |-> 400, location |-> ""]

\* PublishError::UnexpectedError => HttpResponse::InternalServerError()
InternalServerError == [status |-> 500, location |-> ""]

AnyStatus(status) == TRUE

\* SELECT email FROM subscriptions where status='confirmed'
IsConfirmed(status) == status = "confirmed"

ConfirmedRows(table, rows) == SelectSeq(rows, LAMBDA a : IsConfirmed(table[a]))

\* The orders in which the rows may lie in the table.
RowOrders(rows) ==
    {f \in [1..Cardinality(rows) -> rows] : \A a \in rows : \E i \in DOMAIN f : f[i] = a}

SkipRest(rows, i) == Len(rows)

\* The table orders a behaviour starts from: the two valid addresses in either
\* order, with the address that does not parse between them.
TableOrders == {h \in RowOrders(Subscribers) : ~FromStr(h[2]).ok}

\* `for s in subscribers`: the rows that did not parse are warned about and
\* passed over; the result is the number of rows handled when the loop next
\* awaits send_email, or Len(rows) when it ends.
RECURSIVE SkipInvalid(_, _)
SkipInvalid(rows, i) ==
    IF i < Len(rows) /\ ~FromStr(rows[i + 1]).ok
    THEN SkipInvalid(rows, i + 1)
    ELSE i

\* The handler goes on from row i of rows: to the next send_email, or to
\* Ok(see_other("/admin/newsletters")) after the last row.
Continue(r, rows, i) ==
    LET j == SkipInvalid(rows, i)
    IN  /\ ridx' = [ridx EXCEPT ![r] = j]
        /\ IF j = Len(rows)
           THEN /\ rpc' = [rpc EXCEPT ![r] = "done"]
                /\ resp' = [resp EXCEPT ![r] = SeeOther("/admin/newsletters")]
           ELSE /\ rpc' = [rpc EXCEPT ![r] = "send"]
                /\ UNCHANGED resp

AcceptAnyForm(form) == FALSE

\* web::Form<PublishParams>: deserialization fails when a field is missing.
Rejected(form) == ~(RequiredFields \subseteq form)

\* The request arrives: actix extracts the form, then calls the handler.
Submit(r) ==
    /\ rpc[r] = "new"
    /\ \E s \in Submissions, form \in Forms :
         /\ ruser' = [ruser EXCEPT ![r] = s[1]]
         /\ rkey' = [rkey EXCEPT ![r] = s[2]]
         /\ rform' = [rform EXCEPT ![r] = form]
         /\ IF ~Rejected(form)
            THEN /\ rpc' = [rpc EXCEPT ![r] = "fetch"]
                 /\ UNCHANGED resp
            ELSE /\ rpc' = [rpc EXCEPT ![r] = "done"]
                 /\ resp' = [resp EXCEPT ![r] = BadRequest]
    /\ rprior' = [rprior EXCEPT ![r] = {q \in Requests : rpc[q] = "done"}]
    /\ UNCHANGED <<subs, heap, rlist, ridx, rcalls, rerrs>>
    /\ UNCHANGED workerVars
    /\ UNCHANGED apiVars

\* The request is answered with the response of request q and does nothing else.
ReplayFrom(r, q) ==
    /\ rpc' = [rpc EXCEPT ![r] = "done"]
    /\ resp' = [resp EXCEPT ![r] = resp[q]]
    /\ UNCHANGED <<rlist, ridx>>

FetchUnlessAborted(r) ==
    /\ rpc[r] = "fetch"
    /\ LET aborted == {q \in rprior[r] : /\ ruser[q] = ruser[r]
                                         /\ rkey[q] = rkey[r]
                                         /\ resp[q] = InternalServerError}
           rows == ConfirmedRows(subs, heap)
       IN  IF aborted # {}
           THEN \E q \in aborted : ReplayFrom(r, q)
           ELSE /\ rlist' = [rlist EXCEPT ![r] = rows]
                /\ Continue(r, rows, 0)
    /\ UNCHANGED <<subs, heap, ruser, rkey, rform, rprior, rcalls, rerrs>>
    /\ UNCHANGED workerVars
    /\ UNCHANGED apiVars

FetchReplayByKey(r) ==
    /\ rpc[r] = "fetch"
    /\ LET saved == {q \in rprior[r] : /\ rkey[q] = rkey[r]
                                       /\ resp[q] = SeeOther("/admin/newsletters")}
           rows == ConfirmedRows(subs, heap)
       IN  IF saved # {}
           THEN \E q \in saved : ReplayFrom(r, q)
           ELSE /\ rlist' = [rlist EXCEPT ![r] = rows]
                /\ Continue(r, rows, 0)
    /\ UNCHANGED <<subs, heap, ruser, rkey, rform, rprior, rcalls, rerrs>>
    /\ UNCHANGED workerVars
    /\ UNCHANGED apiVars

\* let subscribers = get_confirmed_subscribers(&pool).await?;
FetchSubscribers(r) ==
    /\ rpc[r] = "fetch"
    /\ LET rows == ConfirmedRows(subs, heap)
       IN  /\ rlist' = [rlist EXCEPT ![r] = rows]
           /\ Continue(r, rows, 0)
    /\ UNCHANGED <<subs, heap, ruser, rkey, rform, rprior, rcalls, rerrs>>
    /\ UNCHANGED workerVars
    /\ UNCHANGED apiVars

\* The subscriptions query fails.
FetchError(r) ==
    /\ rpc[r] = "fetch"
    /\ faults < MaxFaults
    /\ faults' = faults + 1
    /\ rpc' = [rpc EXCEPT ![r] = "done"]
    /\ resp' = [resp EXCEPT ![r] = InternalServerError]
    /\ UNCHANGED <<subs, heap, ruser, rkey, rform, rprior, rlist, ridx, rcalls,
                   rerrs>>
    /\ UNCHANGED <<queue, issues, enqueued, pc, task, delivery, outcome, delay,
                   attempts, calls, issueRead, redo, nCalls, nCompleted,
                   cancelled>>
    /\ UNCHANGED apiVars

SendAndCarryOn(r) ==
    /\ rpc[r] = "send"
    /\ rcalls' = [rcalls EXCEPT ![r] = Append(@, FromStr(rlist[r][ridx[r] + 1]).email)]
    /\ \E ok \in BOOLEAN :
         /\ rerrs' = IF ok THEN rerrs ELSE [rerrs EXCEPT ![r] = @ + 1]
         /\ Continue(r, rlist[r], ridx[r] + 1)
    /\ UNCHANGED <<subs, heap, ruser, rkey, rform, rprior, rlist>>
    /\ UNCHANGED workerVars
    /\ UNCHANGED apiVars

\* email_client.send_email(&s.email, ..).await.with_context(..)? for the next
\* row that parsed, and the loop up to the next await.
SendToSubscriber(r) ==
    /\ rpc[r] = "send"
    /\ rcalls' = [rcalls EXCEPT ![r] = Append(@, FromStr(rlist[r][ridx[r] + 1]).email)]
    /\ \E ok \in BOOLEAN :
         IF ok
         THEN /\ Continue(r, rlist[r], ridx[r] + 1)
              /\ UNCHANGED rerrs
         ELSE /\ rpc' = [rpc EXCEPT ![r] = "done"]
              /\ resp' = [resp EXCEPT ![r] = InternalServerError]
              /\ rerrs' = [rerrs EXCEPT ![r] = @ + 1]
              /\ UNCHANGED ridx
    /\ UNCHANGED <<subs, heap, ruser, rkey, rform, rprior, rlist>>
    /\ UNCHANGED workerVars
    /\ UNCHANGED apiVars

\* ------------------------------------------------------ SubscriberName
NameMaxLen == 256
ForbiddenCharacters == {"/", "(", ")", "\"", "<", ">", "\\", "{", "}"}

NameAcceptsAll(s) == TRUE

\* SubscriberName::from_str: not blank, not too long, no forbidden character.
NameIsValid(s) ==
    /\ Trim(s) # <<>>
    /\ Len(s) <= NameMaxLen
    /\ \A i \in 1..Len(s) : s[i] \notin ForbiddenCharacters

TryFromRaw(form) ==
    IF NameIsValid(form.name) /\ FromStr(form.email).ok
    THEN [ok |-> TRUE, name |-> form.name, email |-> form.email]
    ELSE [ok |-> FALSE, name |-> <<>>, email |-> <<>>]

\* NewSubscriber::try_from(form): the name, then the email.
TryFrom(form) ==
    IF NameIsValid(form.name) /\ FromStr(form.email).ok
    THEN [ok |-> TRUE, name |-> form.name, email |-> FromStr(form.email).email]
    ELSE [ok |-> FALSE, name |-> <<>>, email |-> <<>>]

\* ------------------------------------------------------------- subscribe
\* The request is over: its transaction, if still open, is dropped.
Answer(r, status) ==
    web' = [web EXCEPT ![r].pc = "done", ![r].resp = status]

\* POST /subscriptions arrives; web::Form<FormSubscribe> is extracted.
PostSubscriptions(r) ==
    /\ web[r].pc = "new"
    /\ \E form \in SubscribeForms :
         web' = [web EXCEPT ![r] =
                    IF form.name = Missing \/ form.email = Missing
                    THEN [@ EXCEPT !.kind = "subscribe", !.form = form,
                                   !.pc = "done", !.resp = 400]
                    ELSE [@ EXCEPT !.kind = "subscribe", !.form = form,
                                   !.pc = "begin"]]
    /\ UNCHANGED <<mail, subscriptions, tokens, outbox>>
    /\ UNCHANGED <<workerVars, publishVars, authVars>>

\* pool.begin().await.map_err(PoolError)? and NewSubscriber::try_from(form.0)?
BeginSubscribe(r) ==
    /\ web[r].kind = "subscribe"
    /\ web[r].pc = "begin"
    /\ \E ok \in BOOLEAN :
         IF ~ok THEN Answer(r, 500)
         ELSE IF ~TryFrom(web[r].form).ok THEN Answer(r, 400)
         ELSE web' = [web EXCEPT ![r].pc = "insert"]
    /\ UNCHANGED <<mail, subscriptions, tokens, outbox>>
    /\ UNCHANGED <<workerVars, publishVars, authVars>>

InsertOnPool(r) ==
    /\ web[r].kind = "subscribe"
    /\ web[r].pc = "insert"
    /\ \E ok \in BOOLEAN :
         IF ok
         THEN /\ web' = [web EXCEPT ![r].pc = "store_token", ![r].id = r]
              /\ subscriptions' = subscriptions \cup
                    {[id |-> r, email |-> TryFrom(web[r].form).email,
                      name |-> TryFrom(web[r].form).name, status |-> "pending"]}
         ELSE /\ Answer(r, 500)
              /\ UNCHANGED subscriptions
    /\ UNCHANGED <<mail, tokens, outbox>>
    /\ UNCHANGED <<workerVars, publishVars, authVars>>

\* insert_subscriber(&mut transaction, &new_subscriber): subscriber_id is a
\* fresh uuid; the row is not visible before the commit.
InsertSubscriber(r) ==
    /\ web[r].kind = "subscribe"
    /\ web[r].pc = "insert"
    /\ \E ok \in BOOLEAN :
         IF ok THEN web' = [web EXCEPT ![r].pc = "store_token", ![r].id = r]
         ELSE Answer(r, 500)
    /\ UNCHANGED <<mail, subscriptions, tokens, outbox>>
    /\ UNCHANGED <<workerVars, publishVars, authVars>>

\* generate_subscription_token() and store_token(&mut transaction, ..)
StoreToken(r) ==
    /\ web[r].kind = "subscribe"
    /\ web[r].pc = "store_token"
    /\ \E ok \in BOOLEAN :
         IF ok THEN web' = [web EXCEPT ![r].pc = "send", ![r].token = r]
         ELSE Answer(r, 500)
    /\ UNCHANGED <<mail, subscriptions, tokens, outbox>>
    /\ UNCHANGED <<workerVars, publishVars, authVars>>

\* send_confirmation_email(&email_client, &new_subscriber, .., &sub_token)
SendConfirmationEmail(r) ==
    /\ web[r].kind = "subscribe"
    /\ web[r].pc = "send"
    /\ outbox' = Append(outbox, [to |-> TryFrom(web[r].form).email,
                                 token |-> web[r].token, by |-> r])
    /\ \E ok \in BOOLEAN :
         IF ok THEN web' = [web EXCEPT ![r].pc = "commit"]
         ELSE Answer(r, 500)
    /\ UNCHANGED <<mail, subscriptions, tokens>>
    /\ UNCHANGED <<workerVars, publishVars, authVars>>

\* transaction.commit().await.map_err(TransactionError)?; Ok(200)
CommitSubscribe(r) ==
    /\ web[r].kind = "subscribe"
    /\ web[r].pc = "commit"
    /\ \E ok \in BOOLEAN :
         IF ok
         THEN /\ subscriptions' = subscriptions \cup
                    {[id |-> web[r].id, email |-> TryFrom(web[r].form).email,
                      name |-> TryFrom(web[r].form).name, status |-> "pending"]}
              /\ tokens' = tokens \cup
                    {[subscription_token |-> web[r].token, subscriber_id |-> web[r].id]}
              /\ Answer(r, 200)
         ELSE /\ Answer(r, 500)
              /\ UNCHANGED <<subscriptions, tokens>>
    /\ UNCHANGED <<mail, outbox>>
    /\ UNCHANGED <<workerVars, publishVars, authVars>>

\* --------------------------------------------------------------- confirm
\* The tokens a GET /subscriptions/confirm may carry: those the subscribe
\* requests generate, and one that was never generated.
QueryTokens == Requests \cup {UnknownToken, SeedId}

\* SELECT subscriber_id from subscription_tokens where subscription_token = $1
SubscriberIdByToken(table, token) ==
    {t.subscriber_id : t \in {x \in table : x.subscription_token = token}}

ConfirmAll(table, id) == {[row EXCEPT !.status = "confirmed"] : row \in table}

ToggleRows(table, id) ==
    {IF row.id = id
     THEN [row EXCEPT !.status = IF @ = "pending" THEN "confirmed" ELSE "pending"]
     ELSE row : row \in table}

\* UPDATE subscriptions SET status='confirmed' WHERE id = $1
ConfirmRows(table, id) ==
    {IF row.id = id THEN [row EXCEPT !.status = "confirmed"] ELSE row : row \in table}

\* GET /subscriptions/confirm?subscription_token=.. arrives.
GetConfirm(r) ==
    /\ web[r].pc = "new"
    /\ \E token \in QueryTokens :
         web' = [web EXCEPT ![r].kind = "confirm", ![r].token = token,
                            ![r].pc = "lookup"]
    /\ UNCHANGED <<mail, subscriptions, tokens, outbox>>
    /\ UNCHANGED <<workerVars, publishVars, authVars>>

\* get_subscriber_id_by_token(&pool, &p.subscription_token) and the match on
\* its result.
LookupToken(r) ==
    /\ web[r].kind = "confirm"
    /\ web[r].pc = "lookup"
    /\ \E ok \in BOOLEAN :
         LET ids == SubscriberIdByToken(tokens, web[r].token)
         IN  IF ~ok THEN Answer(r, 500)
             ELSE IF ids = {} THEN Answer(r, 401)
             ELSE \E id \in ids :
                     web' = [web EXCEPT ![r].pc = "update", ![r].id = id]
    /\ UNCHANGED <<mail, subscriptions, tokens, outbox>>
    /\ UNCHANGED <<workerVars, publishVars, authVars>>

\* confirm_subscriber(&pool, subscriber_id) and the response.
ConfirmSubscriber(r) ==
    /\ web[r].kind = "confirm"
    /\ web[r].pc = "update"
    /\ \E ok \in BOOLEAN :
         IF ok
         THEN /\ subscriptions' = ConfirmRows(subscriptions, web[r].id)
              /\ Answer(r, 200)
         ELSE /\ Answer(r, 500)
              /\ UNCHANGED subscriptions
    /\ UNCHANGED <<mail, tokens, outbox>>
    /\ UNCHANGED <<workerVars, publishVars, authVars>>

\* ------------------------------------------------------- change_password
\* form.new_password.expose_secret().len() < 12
TooShort(password) == Len(password) < MinPasswordLength

Reply(r, response) ==
    pw' = [pw EXCEPT ![r].pc = "done", ![r].resp = response]

\* POST /admin/password arrives with its session cookie, if any, and its form.
PostPassword(r) ==
    /\ pw[r].pc = "new"
    /\ \E session \in Sessions, form \in PasswordForms :
         pw' = [pw EXCEPT ![r].pc = "check", ![r].session = session,
                          ![r].form = form]
    /\ UNCHANGED users
    /\ UNCHANGED <<workerVars, publishVars, mail, siteVars>>

\* The checks made before the first query: the length of the new password,
\* then the session, then the two new passwords against each other.
CheckForm(r) ==
    /\ pw[r].pc = "check"
    /\ IF TooShort(pw[r].form.new_password)
       THEN Reply(r, SeeOther("/admin/password"))
       ELSE IF pw[r].session = Anonymous
       THEN Reply(r, SeeOther("/login"))
       ELSE IF pw[r].form.new_password # pw[r].form.new_password_confirmed
       THEN Reply(r, SeeOther("/admin/password"))
       ELSE pw' = [pw EXCEPT ![r].pc = "username"]
    /\ UNCHANGED users
    /\ UNCHANGED <<workerVars, publishVars, mail, siteVars>>

\* get_username(user_id, &pool).await.map_err(e500)?
GetUsername(r) ==
    /\ pw[r].pc = "username"
    /\ \E ok \in BOOLEAN :
         IF ok /\ pw[r].session \in DOMAIN users
         THEN pw' = [pw EXCEPT ![r].pc = "validate"]
         ELSE Reply(r, InternalServerError)
    /\ UNCHANGED users
    /\ UNCHANGED <<workerVars, publishVars, mail, siteVars>>

\* validate_credentials: the current password against the stored hash.
ValidateCredentials(r) ==
    /\ pw[r].pc = "validate"
    /\ \E ok \in BOOLEAN :
         IF ~ok
         THEN Reply(r, InternalServerError)
         ELSE IF ~VerifyPassword(users[pw[r].session], pw[r].form.current_password)
         THEN Reply(r, SeeOther("/admin/password"))
         ELSE pw' = [pw EXCEPT ![r].pc = "change"]
    /\ UNCHANGED users
    /\ UNCHANGED <<workerVars, publishVars, mail, siteVars>>

\* authentication::change_password: hash under a fresh salt, UPDATE users.
ChangePassword(r) ==
    /\ pw[r].pc = "change"
    /\ \E ok \in BOOLEAN :
         IF ok
         THEN /\ \E salt \in Salts :
                   users' = [users EXCEPT ![pw[r].session] =
                                PasswordHash(salt, pw[r].form.new_password)]
              /\ Reply(r, SeeOther("/admin/password"))
         ELSE /\ Reply(r, InternalServerError)
              /\ UNCHANGED users
    /\ UNCHANGED <<workerVars, publishVars, mail, siteVars>>

\* ------------------------------------------------------------ email client
NoErrorForStatus(status) == FALSE

\* Response::error_for_status: a 4xx or 5xx answer becomes an Err.
ErrorForStatus(status) == status >= 400 /\ status <= 599

\* self.http_client.post(&url)...send(): the request leaves.
StartSend ==
    /\ mail.state = "idle"
    /\ mail' = [mail EXCEPT !.state = "waiting"]
    /\ UNCHANGED <<workerVars, publishVars, siteVars, authVars>>

\* A tick passes while the call awaits the answer.
Tick ==
    /\ mail.state = "waiting"
    /\ mail.clock < mail.timeout
    /\ mail.clock < mail.delay
    /\ mail' = [mail EXCEPT !.clock = @ + 1]
    /\ UNCHANGED <<workerVars, publishVars, siteVars, authVars>>

\* .send().await?.error_for_status()?; Ok(()) : the answer arrives before the
\* client's timeout has fired.
Respond ==
    /\ mail.state = "waiting"
    /\ mail.clock = mail.delay
    /\ mail' = [mail EXCEPT !.state = "done",
                            !.result = IF ErrorForStatus(mail.status)
                                       THEN "Err" ELSE "Ok"]
    /\ UNCHANGED <<workerVars, publishVars, siteVars, authVars>>

\* reqwest::Client::builder().timeout(timeout): the deadline passes and
\* send().await yields a timeout error.
TimedOut ==
    /\ mail.state = "waiting"
    /\ mail.clock = mail.timeout
    /\ mail' = [mail EXCEPT !.state = "done", !.result = "Err"]
    /\ UNCHANGED <<workerVars, publishVars, siteVars, authVars>>

\* ------------------------------------------------------------ cancellation
\* Shutdown is requested of the worker process.  worker_loop takes no
\* cancellation signal and nothing in it reads one.
RequestStop ==
    /\ ~cancelled
    /\ cancelled' = TRUE
    /\ UNCHANGED <<queue, issues, enqueued, pc, task, delivery, outcome, delay,
                   attempts, calls, issueRead, redo, faults, nCalls, nCompleted>>
    /\ UNCHANGED publishVars
    /\ UNCHANGED apiVars

\* ----------------------------------------------------------- specifications
Next ==
    \E c \in Workers :
        \/ Dequeue(c)
        \/ DequeueError(c)
        \/ GetIssue(c)
        \/ GetIssueError(c)
        \/ SendEmail(c)
        \/ DeleteTask(c)
        \/ DeleteError(c)
        \/ Crash(c)
        \/ WorkerLoop(c)

Spec == Init /\ [][Next]_vars

NextDrain ==
    \/ Dequeue(Drainer)
    \/ GetIssue(Drainer)
    \/ SendEmail(Drainer)
    \/ DeleteTask(Drainer)
    \/ DrainLoop

SpecDrain == Init /\ [][NextDrain]_vars

\* The workers, and a shutdown request arriving at any moment.
NextStop ==
    \/ RequestStop
    \/ \E c \in Workers :
        \/ Dequeue(c)
        \/ DequeueError(c)
        \/ GetIssue(c)
        \/ GetIssueError(c)
        \/ SendEmail(c)
        \/ DeleteTask(c)
        \/ DeleteError(c)
        \/ Crash(c)
        \/ WorkerLoop(c)

SpecStop == Init /\ [][NextStop]_vars

\* An EmailClient built with some timeout, facing a gateway that answers with
\* some status after some delay, or not at all.
InitEmail ==
    /\ InitQueue
    /\ queue = {}
    /\ issues = {}
    /\ NoPublish
    /\ mail \in [state : {"idle"}, timeout : 1..MaxTimeout,
                  status : GatewayStatuses, delay : (0..MaxDelay) \cup {Never},
                  clock : {0}, result : {"none"}]
    /\ subscriptions = {}
    /\ tokens = {}
    /\ outbox = <<>>
    /\ web = [r \in Requests |-> NoRequest]
    /\ NoPosts

NextEmail ==
    \/ StartSend
    \/ Tick
    \/ Respond
    \/ TimedOut

SpecEmail == InitEmail /\ [][NextEmail]_vars

\* An empty database and the requests to /subscriptions and
\* /subscriptions/confirm still to come.
InitSubscribe ==
    /\ InitQueue
    /\ queue = {}
    /\ issues = {}
    /\ NoPublish
    /\ mail = NoCall
    /\ \E seeded \in BOOLEAN :
         /\ subscriptions = IF seeded THEN {SeedRow} ELSE {}
         /\ tokens = IF seeded THEN {SeedToken} ELSE {}
    /\ outbox = <<>>
    /\ web = [r \in Requests |-> NoRequest]
    /\ NoPosts

NextSubscribe ==
    \E r \in Requests :
        \/ PostSubscriptions(r)
        \/ BeginSubscribe(r)
        \/ InsertSubscriber(r)
        \/ StoreToken(r)
        \/ SendConfirmationEmail(r)
        \/ CommitSubscribe(r)
        \/ GetConfirm(r)
        \/ LookupToken(r)
        \/ ConfirmSubscriber(r)

SpecSubscribe == InitSubscribe /\ [][NextSubscribe]_vars

\* The steps of worker c that the runtime keeps scheduling and the store
\* and the gateway keep answering: everything but a failure.
Progress(c) ==
    \/ Dequeue(c)
    \/ GetIssue(c)
    \/ SendEmail(c)
    \/ DeleteTask(c)
    \/ WorkerLoop(c)

\* Every row of the queue refers to an issue that exists.
InitLive ==
    /\ Init
    /\ \A t \in queue : t[1] \in issues

\* The workers under weak fairness: each worker that can take a step
\* eventually takes one, and failures stop after MaxFaults of them.
SpecLive ==
    /\ InitLive
    /\ [][Next]_vars
    /\ \A c \in Workers : WF_vars(Progress(c))

\* The application with one registered user, serving change-password posts.
InitPassword ==
    /\ InitQueue
    /\ queue = {}
    /\ issues = {}
    /\ NoPublish
    /\ NoApi

NextPassword ==
    \E r \in Requests :
        \/ PostPassword(r)
        \/ CheckForm(r)
        \/ GetUsername(r)
        \/ ValidateCredentials(r)
        \/ ChangePassword(r)

SpecPassword == InitPassword /\ [][NextPassword]_vars

\* A fresh database holding subscriptions only, and no worker running.
InitPublish ==
    /\ queue = {}
    /\ issues = {}
    /\ enqueued = {}
    /\ pc = [c \in Callers |-> "idle"]
    /\ task = [c \in Callers |-> NoTask]
    /\ delivery = [c \in Callers |-> "none"]
    /\ outcome = [c \in Callers |-> "none"]
    /\ delay = [c \in Callers |-> 0]
    /\ attempts = [t \in Tasks |-> 0]
    /\ calls = [t \in Tasks |-> 0]
    /\ issueRead = [t \in Tasks |-> FALSE]
    /\ redo = [t \in Tasks |-> 0]
    /\ faults = 0
    /\ nCalls = 0
    /\ nCompleted = 0
    /\ cancelled = FALSE
    /\ subs \in [Subscribers -> {"pending", "confirmed"}]
    /\ heap \in TableOrders
    /\ rpc = [r \in Requests |-> "new"]
    /\ ruser = [r \in Requests |-> "u1"]
    /\ rkey = [r \in Requests |-> "k1"]
    /\ rform = [r \in Requests |-> {}]
    /\ rprior = [r \in Requests |-> {}]
    /\ rlist = [r \in Requests |-> <<>>]
    /\ ridx = [r \in Requests |-> 0]
    /\ rcalls = [r \in Requests |-> <<>>]
    /\ rerrs = [r \in Requests |-> 0]
    /\ resp = [r \in Requests |-> NoResponse]
    /\ NoApi

NextPublish ==
    \E r \in Requests :
        \/ Submit(r)
        \/ FetchSubscribers(r)
        \/ FetchError(r)
        \/ SendToSubscriber(r)

SpecPublish == InitPublish /\ [][NextPublish]_vars

\* ------------------------------------------------------------- properties
\* For each row of the queue, whether its stored address is a valid one.
ValidRow == [t \in Tasks |-> ValidateEmail(Trim(t[2]))]

Valid(t) == ValidRow[t]

Retired(t) == IF t \in enqueued \ queue THEN 1 ELSE 0

\* Callers whose open claim on t is past the delivery stage.
PastDelivery(t) == {c \in Callers : task[c] = t /\ delivery[c] # "none"}

\* C1: no row of the queue is held by two open claims at the same time: the
\* rows handed out to the callers are pairwise distinct.
C1_AtMostOneClaim ==
    \A c, d \in Callers :
        (c # d /\ task[c] # NoTask) => task[c] # task[d]

C1_Witness ==
    \E c, d \in Workers :
        /\ c # d
        /\ task[c] # NoTask
        /\ task[d] # NoTask
        /\ Claimable(queue, Locked) = {}

\* C2 as stated: across all workers and interleavings, crashes and store
\* errors included, the gateway is invoked exactly once for every task with a
\* deliverable address: never twice, and once when the task is gone.
C2_ExactlyOnce ==
    \A t \in enqueued :
        Valid(t) => /\ calls[t] <= 1
                    /\ (t \notin queue => calls[t] = 1)

\* C2 amended: the gateway is invoked once per claim that reaches the send,
\* and never by two workers at once. A retired task has been executed
\* 1 + redo[t] times, redo[t] being the claims on it that a crash or a store
\* error released after the send; a task with an undeliverable address is
\* never executed.
C2_OncePerClaim ==
    \A t \in Tasks :
        /\ Cardinality(PastDelivery(t)) <= 1
        /\ calls[t] = IF Valid(t)
                      THEN redo[t] + Retired(t) + Cardinality(PastDelivery(t))
                      ELSE 0

C2_Witness ==
    \E t \in enqueued : Valid(t) /\ t \notin queue /\ calls[t] = 2 /\ redo[t] = 1

\* C3 as stated: a row that exists (and is not claimed at the moment) has had
\* no delivery attempt, and an enqueued row that is gone has had exactly one.
C3_RowMeansUnattempted ==
    \A t \in enqueued :
        /\ (t \in queue /\ t \notin Locked) => attempts[t] = 0
        /\ t \notin queue => attempts[t] = 1

\* C3 amended: a row that exists and is not claimed has had one delivery
\* attempt per claim on it that was released after the attempt (none when
\* no crash or store error hit it); an enqueued row that is gone has had
\* exactly one attempt more than that.
C3_AttemptsAccounted ==
    \A t \in enqueued :
        /\ (t \in queue /\ t \notin Locked) => attempts[t] = redo[t]
        /\ t \notin queue => attempts[t] = 1 + redo[t]

C3_Witness ==
    \E t \in enqueued :
        t \in queue /\ t \notin Locked /\ attempts[t] = 1 /\ redo[t] = 1

\* C4: whatever the delivery stage ends with (sent, gateway error, address
\* rejected), the call goes on to delete_task with the claim still held; when
\* delete_task returns Ok the row is deleted, the claim is gone and the result
\* is TaskCompleted; a row retired this way never comes back, so a failed
\* send is not retried.
C4_RetireOnAnyOutcome ==
    [][\A c \in Callers :
        /\ (delivery[c] = "none" /\ delivery'[c] # "none")
              => (pc'[c] = "retire" /\ task'[c] # NoTask)
        /\ (pc[c] = "retire" /\ pc'[c] = "returned" /\ outcome'[c] # "Err")
              => /\ outcome'[c] = "TaskCompleted"
                 /\ delivery'[c] \in {"sent", "failed", "invalid"}
                 /\ task[c] \notin queue'
                 /\ task'[c] = NoTask
        /\ \A t \in enqueued : t \notin queue => t \notin queue'
      ]_vars

C4_Witness ==
    \E c \in Workers :
        /\ pc[c] = "returned"
        /\ outcome[c] = "TaskCompleted"
        /\ delivery[c] = "failed"
        /\ queue # enqueued

\* C5: when a claim ends without delete_task committing (crash, store error,
\* dropped transaction), the row is still in the queue and unlocked, so the
\* next dequeue_task of any caller may return it.
C5_ClaimReleasedOnAbort ==
    [][\A c \in Callers :
        (/\ task[c] # NoTask
         /\ task'[c] = NoTask
         /\ ~(pc[c] = "retire" /\ outcome'[c] = "TaskCompleted"))
        => /\ task[c] \in queue'
           /\ \A d \in Callers :
                 task[c] \in Claimable(queue', {task'[e] : e \in Callers \ {d}})
      ]_vars

C5_Witness ==
    \E c \in Workers :
        /\ task[c] # NoTask
        /\ redo[task[c]] >= 1
        /\ faults >= 1

\* Every deliverable row refers to an issue that exists.
IssuesPresent == \A t \in enqueued : Valid(t) => t[1] \in issues

NumEnqueued == Cardinality(enqueued)

\* C6: a single caller draining M rows gets TaskCompleted exactly M times and
\* EmptyQueue on call M + 1, whatever each delivery ends with.
C6_QueueDrains ==
    IssuesPresent =>
        /\ pc[Drainer] # "panicked"
        /\ outcome[Drainer] # "Err"
        /\ nCompleted <= NumEnqueued
        /\ outcome[Drainer] = "TaskCompleted" => nCalls = nCompleted + 1
        /\ outcome[Drainer] = "TaskCompleted" => nCalls <= NumEnqueued
        /\ outcome[Drainer] = "EmptyQueue"
              => /\ nCalls = NumEnqueued + 1
                 /\ nCompleted = NumEnqueued
                 /\ queue = {}
        /\ pc[Drainer] = "stopped"
              => /\ nCalls = NumEnqueued + 1
                 /\ nCompleted = NumEnqueued
                 /\ queue = {}

C6_Witness ==
    /\ pc[Drainer] = "stopped"
    /\ nCompleted = MaxQueue
    /\ nCalls = MaxQueue + 1
    /\ \E t \in enqueued : ~Valid(t)
    /\ \E t \in enqueued : Valid(t)

\* C7: a row whose address does not parse is retired by the first call that
\* claims it, with no send_email call and no get_issue call for it, and the
\* caller goes on to the rows that remain.
C7_InvalidAddressRetired ==
    /\ \A t \in enqueued :
          ~Valid(t) =>
              /\ calls[t] = 0
              /\ ~issueRead[t]
              /\ attempts[t] = Retired(t) + Cardinality(PastDelivery(t))
              /\ attempts[t] <= 1
              /\ task[Drainer] = t => pc[Drainer] = "retire"
    /\ outcome[Drainer] = "EmptyQueue" => queue = {}

C7_Witness ==
    /\ \E t \in enqueued : ~Valid(t) /\ t \notin queue /\ attempts[t] = 1
    /\ \E t \in enqueued : Valid(t) /\ t \notin queue /\ calls[t] = 1
    /\ nCalls = 2

\* Two publish requests of the same user with the same idempotency key.
SameKey(r1, r2) == ruser[r1] = ruser[r2] /\ rkey[r1] = rkey[r2]

\* C8: a submission that repeats, after the 303 answer, the (user, key) of an
\* earlier one sends no email and, the store not failing, gets the same 303
\* to /admin/newsletters.
C8_RetryDoesNotResend ==
    \A r1, r2 \in Requests :
        (/\ r1 \in rprior[r2]
         /\ SameKey(r1, r2)
         /\ resp[r1] = SeeOther("/admin/newsletters")
         /\ resp[r2] # BadRequest)
        => /\ rcalls[r2] = <<>>
           /\ (rpc[r2] = "done" /\ faults = 0) => resp[r2] = resp[r1]

\* C9: of the submissions in flight together under one (user, key) that are
\* answered 303, only one has run the send loop: no recipient is sent the
\* issue by two of them.
C9_ConcurrentRunsOnce ==
    \A r1, r2 \in Requests :
        (/\ r1 # r2
         /\ SameKey(r1, r2)
         /\ r1 \notin rprior[r2] /\ r2 \notin rprior[r1]
         /\ resp[r1] = SeeOther("/admin/newsletters")
         /\ resp[r2] = SeeOther("/admin/newsletters"))
        => rcalls[r1] = <<>> \/ rcalls[r2] = <<>>

\* C10: after a publish with N >= 1 confirmed recipients, the issue row and
\* exactly N task rows of that issue exist, or, the publish having failed,
\* neither a task nor an issue row exists.
C10_AtomicFanOut ==
    \A r \in Requests :
        (rpc[r] = "done" /\ Len(rlist[r]) >= 1) =>
            IF resp[r] = SeeOther("/admin/newsletters")
            THEN \E i \in issues :
                    Cardinality({t \in queue : t[1] = i}) = Len(rlist[r])
            ELSE queue = {} /\ issues = {}

\* For each stored address, what from_str makes of it.
Parsed == [a \in Subscribers |-> FromStr(a)]

\* The stored rows a publish has to reach: confirmed, with an address that parses.
ValidConfirmed ==
    SelectSeq(heap, LAMBDA a : subs[a] = "confirmed" /\ Parsed[a].ok)

\* The addresses the gateway is given for a sequence of stored rows.
Emails(rows) == [i \in DOMAIN rows |-> Parsed[rows[i]].email]

\* C11: after a submission ended in 500, a later well-formed submission with
\* the same (user, key) is processed afresh: answered 303 it has emailed every
\* valid confirmed subscriber, and it is answered 500 only through a failure
\* of its own, never with the outcome of the aborted one.
C11_AbortedKeyStartsFresh ==
    \A r1, r2 \in Requests :
        (/\ r1 \in rprior[r2]
         /\ SameKey(r1, r2)
         /\ resp[r1] = InternalServerError
         /\ rpc[r2] = "done"
         /\ resp[r2] # BadRequest)
        => /\ resp[r2] = SeeOther("/admin/newsletters")
                => rcalls[r2] = Emails(ValidConfirmed)
           /\ (resp[r2] = InternalServerError /\ faults = 0)
                => rcalls[r2] # <<>>

C11_Witness ==
    \E r1, r2 \in Requests :
        /\ r1 \in rprior[r2]
        /\ SameKey(r1, r2)
        /\ resp[r1] = InternalServerError
        /\ rcalls[r1] # <<>>
        /\ rpc[r2] = "done"
        /\ resp[r2] = SeeOther("/admin/newsletters")
        /\ rcalls[r2] # <<>>

\* C12: a well-formed submission whose (user, key) differs from that of
\* another submission, in the key or in the user, runs its own query and its
\* own send loop: answered 303, it holds the confirmed rows it fetched itself
\* and has emailed each valid one.
C12_FreshKeyIndependent ==
    \A r1, r2 \in Requests :
        (/\ r1 # r2
         /\ rpc[r1] # "new"
         /\ ~SameKey(r1, r2)
         /\ rpc[r2] = "done"
         /\ resp[r2] = SeeOther("/admin/newsletters"))
        => /\ rlist[r2] = ConfirmedRows(subs, heap)
           /\ rcalls[r2] = Emails(ValidConfirmed)

C12_Witness ==
    \E r1, r2 \in Requests :
        /\ r1 \in rprior[r2]
        /\ ruser[r1] # ruser[r2]
        /\ rkey[r1] = rkey[r2]
        /\ resp[r1] = SeeOther("/admin/newsletters")
        /\ rpc[r2] = "done"
        /\ resp[r2] = SeeOther("/admin/newsletters")
        /\ rcalls[r2] # <<>>

\* C13: a submission whose form lacks the title or a content field is answered
\* 400 and has had no effect: no subscriber was read for it, no email was sent
\* for it, and no issue or delivery task was stored.
C13_MalformedRejectedFirst ==
    \A r \in Requests :
        (rpc[r] # "new" /\ ~(RequiredFields \subseteq rform[r]))
        => /\ rpc[r] = "done"
           /\ resp[r] = BadRequest
           /\ rlist[r] = <<>>
           /\ rcalls[r] = <<>>
           /\ queue = {}
           /\ issues = {}

C13_Witness ==
    \E r1, r2 \in Requests :
        /\ rform[r1] = {"title"}
        /\ resp[r1] = BadRequest
        /\ rform[r2] = {"html_content", "text_content"}
        /\ resp[r2] = BadRequest
        /\ ValidConfirmed # <<>>

\* C14: every address a publish has emailed is the address of a subscriber
\* whose status is 'confirmed'; and with no confirmed subscriber a well-formed
\* publish sends nothing and, the store not failing, is answered 303.
C14_OnlyConfirmedReceive ==
    \A r \in Requests :
        /\ \A i \in DOMAIN rcalls[r] :
              \E a \in Subscribers :
                  subs[a] = "confirmed" /\ Parsed[a].email = rcalls[r][i]
        /\ (/\ \A a \in Subscribers : subs[a] # "confirmed"
            /\ rpc[r] = "done"
            /\ resp[r] # BadRequest
            /\ faults = 0)
           => resp[r] = SeeOther("/admin/newsletters") /\ rcalls[r] = <<>>

C14_Witness ==
    \E r \in Requests :
        /\ \E a \in Subscribers : subs[a] = "pending" /\ ValidateEmail(Trim(a))
        /\ rpc[r] = "done"
        /\ resp[r] = SeeOther("/admin/newsletters")
        /\ rcalls[r] # <<>>

\* C15: a publish answered 303 to /admin/newsletters has made exactly one
\* send_email call for each confirmed subscriber whose stored address parses,
\* and no other call.
C15_OneEmailPerConfirmed ==
    \A r \in Requests :
        (rpc[r] = "done" /\ resp[r] = SeeOther("/admin/newsletters"))
        => /\ Len(rcalls[r]) = Len(ValidConfirmed)
           /\ \A a \in Subscribers :
                 (subs[a] = "confirmed" /\ Parsed[a].ok)
                 => Cardinality({i \in DOMAIN rcalls[r] :
                                    rcalls[r][i] = Parsed[a].email}) = 1

C15_Witness ==
    \E r \in Requests :
        /\ rpc[r] = "done"
        /\ resp[r] = SeeOther("/admin/newsletters")
        /\ Len(rcalls[r]) = 2
        /\ \E a \in Subscribers : subs[a] = "confirmed" /\ ~ValidateEmail(Trim(a))

\* C16: when a worker goes from the return of try_execute_task back to the
\* top of its loop, the sleep before its next poll is 0 after TaskCompleted,
\* the long interval after EmptyQueue and the short interval after an error;
\* it is one of these three values however many errors came before.
C16_LoopPolicy ==
    [][\A c \in Workers :
          (pc[c] = "returned" /\ pc'[c] # "returned")
          => /\ outcome[c] = "TaskCompleted" => delay'[c] = 0
             /\ outcome[c] = "EmptyQueue" => delay'[c] = EmptyQueueSleep
             /\ outcome[c] = "Err" => delay'[c] = ErrorSleep
             /\ delay'[c] \in {0, ErrorSleep, EmptyQueueSleep}]_vars

C16_Witness ==
    \E c, d \in Workers :
        /\ pc[c] = "idle" /\ delay[c] = ErrorSleep
        /\ pc[d] = "idle" /\ delay[d] = EmptyQueueSleep

\* C17: a worker never leaves its loop: no step takes it to a stopped state
\* or hands an error to its caller, and the step that follows a return of
\* try_execute_task, an error included, takes it back to the top of the loop
\* with the outcome consumed, from where its next step is another poll.
C17_WorkerNeverStops ==
    [][\A c \in Workers :
          /\ pc'[c] \in {"idle", "get_issue", "send", "retire", "returned"}
          /\ (pc[c] = "returned" /\ pc'[c] # "returned")
             => pc'[c] = "idle" /\ outcome'[c] = "none"
          /\ (pc[c] = "idle" /\ pc'[c] # "idle")
             => pc'[c] \in {"get_issue", "retire", "returned"}]_vars

C17_Witness ==
    /\ \A c \in Workers : pc[c] = "idle" /\ delay[c] = ErrorSleep
    /\ faults = MaxFaults
    /\ \E t \in queue : issueRead[t] /\ t[1] \notin issues

\* C18: once shutdown has been requested, a worker that is between two
\* iterations of its loop starts no further iteration: it claims no row and
\* makes no further poll.
C18_StopsBetweenIterations ==
    [][\A c \in Workers :
          (cancelled /\ pc[c] = "idle") => (pc'[c] = "idle" /\ task'[c] = NoTask)]_vars

\* C19: when get_issue finds no newsletter issue for the claimed row (the
\* store itself not failing), the call ends with the row retired: the row is
\* no longer in the queue.
C19_MissingIssueRetired ==
    [][\A c \in Workers :
          (/\ pc[c] = "get_issue"
           /\ task[c][1] \notin issues
           /\ pc'[c] = "returned"
           /\ faults' = faults)
          => task[c] \notin queue']_vars

\* C20 as stated: a call of try_execute_task that has claimed a row with a
\* valid address, whose issue exists, returns having made a send_email call.
C20_ValidClaimAlwaysSends ==
    [][\A c \in Workers :
          (/\ task[c] # NoTask
           /\ Valid(task[c])
           /\ task[c][1] \in issues
           /\ pc[c] # "returned"
           /\ pc'[c] = "returned")
          => delivery'[c] \in {"sent", "failed"}]_vars

\* C20 amended: send_email is called only by the caller that holds the row,
\* only for a valid address, and only as that call's first delivery, once;
\* a call that returns TaskCompleted has made exactly one send_email call if
\* the address was valid and none if it was invalid; a call that finds no row
\* makes none.
C20_OneCallPerClaim ==
    [][/\ \A t \in Tasks :
            /\ calls'[t] \in {calls[t], calls[t] + 1}
            /\ calls'[t] = calls[t] + 1
               => \E c \in Workers :
                     /\ task[c] = t
                     /\ Valid(t)
                     /\ delivery[c] = "none"
                     /\ delivery'[c] \in {"sent", "failed"}
       /\ \A c \in Workers :
            /\ (delivery[c] = "none" /\ delivery'[c] \in {"sent", "failed"})
               => calls'[task[c]] = calls[task[c]] + 1
            /\ (pc[c] = "retire" /\ outcome'[c] = "TaskCompleted")
               => IF Valid(task[c])
                  THEN delivery[c] \in {"sent", "failed"}
                  ELSE delivery[c] = "invalid"
            /\ (pc[c] = "idle" /\ outcome'[c] = "EmptyQueue")
               => delivery'[c] = "none" /\ calls' = calls]_vars

C20_Witness ==
    \E c, d \in Workers :
        /\ pc[c] = "returned" /\ outcome[c] = "TaskCompleted" /\ delivery[c] = "failed"
        /\ pc[d] = "returned" /\ outcome[d] = "TaskCompleted" /\ delivery[d] = "invalid"
        /\ \E t \in Tasks : calls[t] = 1 /\ attempts[t] = 1 /\ t \notin queue

WellFormed(form) ==
    /\ form.name # Missing
    /\ form.email # Missing
    /\ Trim(form.name) # <<>>
    /\ \A i \in 1..Len(form.name) : form.name[i] \notin ForbiddenCharacters
    /\ ValidateEmail(Trim(form.email))

SentBy(r) == {i \in DOMAIN outbox : outbox[i].by = r}

\* C22: a finished subscribe request with a valid name and email has been
\* answered 200 unless the store or the gateway failed (500); answered 200, it
\* has left exactly one row with its subscriber id, holding the trimmed
\* email and the name, pending until a confirmation, and the only row for
\* that email if no other request subscribed it; one token for that id; and
\* it has sent exactly one email, to that address and with that token.
C22_SubscribeStoresAndSends ==
    \A r \in Requests :
        (web[r].kind = "subscribe" /\ web[r].pc = "done" /\ WellFormed(web[r].form))
        => /\ web[r].resp \in {200, 500}
           /\ web[r].resp = 200 =>
                LET rows == {x \in subscriptions : x.id = web[r].id}
                    toks == {t \in tokens : t.subscriber_id = web[r].id}
                    email == Trim(web[r].form.email)
                IN  /\ Cardinality(rows) = 1
                    /\ \A x \in rows :
                          /\ x.email = email
                          /\ x.name = web[r].form.name
                          /\ \/ x.status = "pending"
                             \/ \E q \in Requests : /\ web[q].kind = "confirm"
                                                     /\ web[q].id = x.id
                                                     /\ web[q].resp = 200
                    /\ (\A q \in Requests \ {r} :
                            ~(/\ web[q].kind = "subscribe"
                              /\ web[q].form.email # Missing
                              /\ Trim(web[q].form.email) = email))
                       => Cardinality({x \in subscriptions : x.email = email}) = 1
                    /\ Cardinality(toks) = 1
                    /\ Cardinality(SentBy(r)) = 1
                    /\ \A i \in SentBy(r) :
                          /\ outbox[i].to = email
                          /\ \E t \in toks : t.subscription_token = outbox[i].token

C22_Witness ==
    \E r \in Requests :
        /\ web[r].kind = "subscribe"
        /\ web[r].resp = 200
        /\ web[r].form.email = <<" ", "b", "@", "a">>
        /\ \E x \in subscriptions : x.email = <<"b", "@", "a">> /\ x.status = "pending"
        /\ Len(outbox) = 1

\* C23: a subscribe request whose name or email is missing, blank or invalid
\* is answered 400 (500 if not even a transaction could be opened), and it
\* never gets past validation: it stores no row and no token and sends no
\* email.
C23_InvalidSubscribeRejected ==
    \A r \in Requests :
        (web[r].kind = "subscribe" /\ ~WellFormed(web[r].form))
        => /\ web[r].pc \in {"begin", "done"}
           /\ web[r].pc = "done" => web[r].resp \in {400, 500}
           /\ (web[r].form.name = Missing \/ web[r].form.email = Missing)
                => web[r].resp = 400
           /\ \A x \in subscriptions : x.id # r
           /\ \A t \in tokens : t.subscriber_id # r /\ t.subscription_token # r
           /\ SentBy(r) = {}

C23_Witness ==
    \E r1, r2 \in Requests :
        /\ web[r1].kind = "subscribe" /\ web[r1].resp = 400
        /\ web[r1].form.name = <<"a", "/">>
        /\ web[r2].kind = "subscribe" /\ web[r2].resp = 400
        /\ web[r2].form.email = <<>>

\* C24: when a confirm request is answered, then: 200 means its token was
\* stored for a subscriber, whose rows are now 'confirmed', every other row
\* being unchanged; 401 means its token was not stored, and no row changed;
\* and a request whose token is stored is never answered 401.
C24_ConfirmByToken ==
    [][\A r \in Requests :
          (web[r].kind = "confirm" /\ web[r].pc # "done" /\ web'[r].pc = "done")
          => LET stored == {t \in tokens : t.subscription_token = web[r].token}
             IN  /\ web'[r].resp = 200 =>
                      /\ \E t \in stored : t.subscriber_id = web[r].id
                      /\ \A x \in subscriptions' : x.id = web[r].id => x.status = "confirmed"
                      /\ {x \in subscriptions' : x.id # web[r].id}
                           = {x \in subscriptions : x.id # web[r].id}
                      /\ {x.id : x \in subscriptions'} = {x.id : x \in subscriptions}
                 /\ web'[r].resp = 401 => stored = {} /\ subscriptions' = subscriptions
                 /\ stored # {} => web'[r].resp \in {200, 500}
                 /\ web'[r].resp \in {200, 401, 500}]_vars

C24_Witness ==
    \E r1, r2 \in Requests :
        /\ web[r1].kind = "subscribe" /\ web[r1].resp = 200
        /\ web[r2].kind = "confirm" /\ web[r2].resp = 200 /\ web[r2].token = web[r1].token
        /\ \E x \in subscriptions : x.id = web[r1].id /\ x.status = "confirmed"
        /\ SeedRow \in subscriptions

\* C25: a change-password post from a caller whose session holds no user id
\* is answered with a redirect to /login.
C25_AnonymousRedirectedToLogin ==
    \A r \in Requests :
        (pw[r].pc = "done" /\ pw[r].session = Anonymous)
        => pw[r].resp = SeeOther("/login")

\* Rows of the queue that no caller other than c holds.
NotHeldByOthers(c) == {t \in queue : \A d \in Callers \ {c} : task[d] # t}

\* C26: a dequeue_task whose query does not fail returns no row, and the call
\* returns EmptyQueue at once, exactly when every row of the queue is held by
\* another caller's open claim, rows still pending included; otherwise it
\* returns one of the rows nobody else holds.
C26_EmptyQueueIffAllLocked ==
    [][\A c \in Callers :
          (pc[c] = "idle" /\ pc'[c] # "idle" /\ faults' = faults)
          => /\ (outcome'[c] = "EmptyQueue") <=> (NotHeldByOthers(c) = {})
             /\ (outcome'[c] = "EmptyQueue") <=> (task'[c] = NoTask)
             /\ (outcome'[c] = "EmptyQueue") <=> (pc'[c] = "returned")
             /\ task'[c] # NoTask => task'[c] \in NotHeldByOthers(c)]_vars

C26_Witness ==
    \E c, d \in Workers :
        /\ pc[c] = "returned"
        /\ outcome[c] = "EmptyQueue"
        /\ task[d] # NoTask
        /\ queue = {task[d]}
        /\ pc[d] = "get_issue"

\* C27: when try_execute_task returns Err, the queue is as it was, the row the
\* call had claimed (if any) is in it and no caller holds it, so any caller's
\* next dequeue_task may return it; a later claim on a row goes through the
\* same stages whatever was sent before, so its send_email is called again.
C27_ErrLeavesRowClaimable ==
    [][\A c \in Callers :
          /\ (pc[c] # "returned" /\ pc'[c] = "returned" /\ outcome'[c] = "Err")
             => /\ queue' = queue
                /\ task'[c] = NoTask
                /\ task[c] # NoTask
                   => /\ task[c] \in queue'
                      /\ \A d \in Callers : task'[d] # task[c]
                      /\ delivery[c] # "none" => redo'[task[c]] = redo[task[c]] + 1
          /\ (pc[c] = "idle" /\ task'[c] # NoTask /\ Valid(task'[c]))
             => pc'[c] = "get_issue"
          /\ (pc[c] = "send" /\ pc'[c] # "send" /\ faults' = faults)
             => calls'[task[c]] = calls[task[c]] + 1]_vars

C27_Witness ==
    \E c \in Workers :
        /\ pc[c] = "retire"
        /\ delivery[c] \in {"sent", "failed"}
        /\ calls[task[c]] = 2
        /\ redo[task[c]] = 1
        /\ faults >= 1

\* C29: a call that returns TaskCompleted has removed the row it had claimed
\* and nothing else: every other row, every issue and every other caller's
\* claim is as before; a call that returns EmptyQueue leaves the queue and the
\* issues as they were and holds no claim.
C29_OnlyClaimedRowRemoved ==
    [][\A c \in Callers :
          /\ (pc[c] # "returned" /\ pc'[c] = "returned"
                /\ outcome'[c] = "TaskCompleted")
             => /\ task[c] \in queue
                /\ queue' = queue \ {task[c]}
                /\ issues' = issues
                /\ task'[c] = NoTask
                /\ \A d \in Callers \ {c} : task'[d] = task[d]
          /\ (pc[c] # "returned" /\ pc'[c] = "returned"
                /\ outcome'[c] = "EmptyQueue")
             => /\ queue' = queue
                /\ issues' = issues
                /\ task[c] = NoTask
                /\ task' = task]_vars

C29_Witness ==
    \E c \in Workers, t \in Tasks :
        /\ pc[c] = "returned"
        /\ outcome[c] = "TaskCompleted"
        /\ Cardinality(enqueued) = 2
        /\ queue = {t}
        /\ \E u \in enqueued \ queue : u[1] = t[1]

\* The stages of try_execute_task in which the transaction is open.
Processing == {"get_issue", "send", "retire"}

\* C30: a caller holds its row in every stage from the claim to the return,
\* the gateway call included, and keeps the same row from stage to stage;
\* while it does, no dequeue_task of another caller returns that row.
C30_ClaimHeldThroughout ==
    [][\A c \in Callers :
          /\ (pc'[c] \in Processing) <=> (task'[c] # NoTask)
          /\ (pc[c] \in Processing /\ pc'[c] \in Processing) => task'[c] = task[c]
          /\ pc[c] \in Processing
             => \A d \in Callers \ {c} :
                   (pc[d] = "idle" /\ pc'[d] # "idle") => task'[d] # task[c]]_vars

C30_Witness ==
    \E c, d \in Workers :
        /\ pc[c] = "send"
        /\ pc[d] = "get_issue"
        /\ task[c] # task[d]
        /\ Claimable(queue, Locked) = {}
        /\ Cardinality(queue) = 2

\* C28: with every worker scheduled fairly, no further enqueue, every
\* referenced issue present and the store failing only finitely often, the
\* queue is eventually empty and stays empty: every row is retired.
C28_QueueEventuallyEmpty == <>[](queue = {})

C28_Witness ==
    /\ queue = {}
    /\ Cardinality(enqueued) = MaxQueue
    /\ faults = MaxFaults
    /\ \E t \in enqueued : redo[t] >= 1 /\ calls[t] = 2
    /\ \A c \in Workers : outcome[c] = "EmptyQueue"

\* C31: a subscribe request that is answered with an error, whichever step
\* failed, has persisted neither a subscription row nor a token, also when its
\* confirmation email had already gone out; a request still in progress has
\* persisted nothing either; and every subscription row has its token, every
\* token its subscription row.
C31_SubscribeAllOrNothing ==
    /\ \A r \in Requests :
          (web[r].kind = "subscribe" /\ web[r].resp # 200)
          => /\ web[r].pc = "done" => web[r].resp \in {400, 500}
             /\ \A x \in subscriptions : x.id # r
             /\ \A t \in tokens : t.subscriber_id # r /\ t.subscription_token # r
    /\ \A x \in subscriptions :
          Cardinality({t \in tokens : t.subscriber_id = x.id}) = 1
    /\ \A t \in tokens :
          Cardinality({x \in subscriptions : x.id = t.subscriber_id}) = 1

C31_Witness ==
    \E r1, r2 \in Requests :
        /\ web[r1].kind = "subscribe" /\ web[r1].pc = "done" /\ web[r1].resp = 500
        /\ web[r1].id = r1 /\ web[r1].token = r1
        /\ SentBy(r1) # {}
        /\ web[r2].kind = "subscribe" /\ web[r2].resp = 200
        /\ Cardinality(subscriptions) = 1
        /\ Cardinality(tokens) = 1

\* C32: a row enters subscriptions as 'pending'; no step removes a row,
\* changes its email or name, or takes a 'confirmed' row back to 'pending';
\* the UPDATE of a confirm sets its subscriber's rows to 'confirmed', and a
\* confirm for a subscriber that is already confirmed is answered 200 (500 if
\* a query fails) with the table unchanged.
C32_StatusOnlyForward ==
    [][/\ \A x \in subscriptions :
            \E y \in subscriptions' :
                /\ y.id = x.id /\ y.email = x.email /\ y.name = x.name
                /\ y.status \in {x.status, "confirmed"}
       /\ \A y \in subscriptions' :
            /\ (\A x \in subscriptions : x.id # y.id) => y.status = "pending"
            /\ (\E x \in subscriptions : x.id = y.id /\ x.status = "confirmed")
                  => y.status = "confirmed"
       /\ \A r \in Requests :
            (/\ web[r].kind = "confirm"
             /\ web[r].pc = "update"
             /\ web'[r].pc = "done"
             /\ \E x \in subscriptions : x.id = web[r].id /\ x.status = "confirmed")
            => /\ web'[r].resp \in {200, 500}
               /\ subscriptions' = subscriptions]_vars

C32_Witness ==
    \E r1, r2 \in Requests :
        /\ r1 # r2
        /\ web[r1].kind = "confirm" /\ web[r1].resp = 200
        /\ web[r2].kind = "confirm" /\ web[r2].resp = 200
        /\ web[r1].id = web[r2].id
        /\ \E x \in subscriptions : x.id = web[r1].id /\ x.status = "confirmed"

\* The addresses send_email is called with for the stored rows given: the
\* rows that parse, in order.
Deliverable(rows) == Emails(SelectSeq(rows, LAMBDA a : Parsed[a].ok))

\* C33: a publish is answered 303 only if none of its send_email calls
\* failed, and then it has called send_email for every fetched row that
\* parses, the rows that do not parse being passed over; a publish has at
\* most one failed call, and after it the answer is 500, the failed call is
\* the last one, the calls made for the earlier rows stand and no later row
\* has been sent to.
C33_PublishStopsAtFirstFailure ==
    \A r \in Requests :
        /\ rerrs[r] <= 1
        /\ rpc[r] # "done" => rerrs[r] = 0
        /\ (rpc[r] = "done" /\ resp[r] = SeeOther("/admin/newsletters"))
           => /\ rerrs[r] = 0
              /\ ridx[r] = Len(rlist[r])
              /\ rcalls[r] = Deliverable(rlist[r])
        /\ rerrs[r] = 1
           => /\ resp[r] = InternalServerError
              /\ ridx[r] < Len(rlist[r])
              /\ Parsed[rlist[r][ridx[r] + 1]].ok
              /\ rcalls[r] = Deliverable(SubSeq(rlist[r], 1, ridx[r] + 1))

C33_Witness ==
    \E r1, r2 \in Requests :
        /\ rerrs[r1] = 1 /\ Len(rcalls[r1]) = 1 /\ Len(rlist[r1]) = 3
        /\ rerrs[r2] = 1 /\ Len(rcalls[r2]) = 2 /\ ridx[r2] = 2
        /\ ~Parsed[rlist[r2][2]].ok

====
